---------------------------- MODULE Spec2Model ----------------------------
(***************************************************************************)
(* A model of three of the repository's Bevy 0.4 examples:                 *)
(*                                                                         *)
(*   - ecs/systems-queries_code/examples/concurrency.rs: the producer      *)
(*     send_events and the time-budgeted drainer do_work, run once per     *)
(*     tick in registration order (specifications Spec and SpecDoWork);    *)
(*   - ecs/resources_code/examples/resource_smart_pointers.rs: the score   *)
(*     example (specification SpecScore);                                  *)
(*   - the unique_resource_types.rs and adding_resources.rs examples: the  *)
(*     resource registrations made by main (specification SpecResources).  *)
(*                                                                         *)
(* Times are in nanoseconds, as in Duration::new(secs, nanos).             *)
(***************************************************************************)
EXTENDS Integers, Sequences, FiniteSets

VARIABLES
    \* concurrency.rs
    time_budget,        \* the TimeBudget resource: duration, in nanoseconds
    cost,               \* wall-clock time one loop iteration of do_work takes
    events,             \* Events<ImportantMessage>: the messages sent so far
    message_number,     \* send_events' Local<u32>
    last_event_count,   \* do_work's Local<EventReader>: the reader's cursor
    processed,          \* the message numbers do_work has printed, in order
    passes,             \* one record per do_work pass that has returned
    pc,                 \* the system the schedule runs next
    \* resource_smart_pointers.rs
    score_map,          \* HashMap<Player, Score>
    winner,             \* the Winner resource
    shown,              \* what show_winner printed last
    spc,                \* the system the schedule runs next
    \* unique_resource_types.rs, adding_resources.rs
    resources,          \* per example, the App's resources, keyed by type
    rpc                 \* per example, the number of builder calls made

concVars == <<time_budget, cost, events, message_number, last_event_count,
              processed, passes, pc>>

scoreVars == <<score_map, winner, shown, spc>>

resVars == <<resources, rpc>>

vars == <<time_budget, cost, events, message_number, last_event_count,
          processed, passes, pc, score_map, winner, shown, spc, resources, rpc>>

-----------------------------------------------------------------------------
(* Bounds of the model. *)

\* The number of ticks of the concurrency example that are explored.
MaxTicks == 3

\* sleep() returns after at least the requested time: one iteration of
\* do_work's loop costs between SleepNanos and SleepNanos + MaxOversleep.
MaxOversleep == 20

\* SpecDoWork: the budgets 0..MaxBudget and the costs 1..MaxCost are explored
\* beside the configured ones, and a backlog of 0..MaxBacklog unread messages
\* is queued before the first tick.
MaxBudget == 4

MaxCost == 3

MaxBacklog == 1

\* Scores are explored up to MaxScore.
MaxScore == 12

-----------------------------------------------------------------------------
(* concurrency.rs *)

\* Rust's ^ on integers: bitwise exclusive or.
RECURSIVE BitXor(_, _)
BitXor(a, b) ==
    IF a = 0 THEN b
    ELSE IF b = 0 THEN a
    ELSE (((a % 2) + (b % 2)) % 2) + (2 * BitXor(a \div 2, b \div 2))

\* Duration::new(0, 3 * 10 ^ 8): * binds tighter than ^.
TimeBudgetNanos == BitXor(3 * 10, 8)

\* sleep(Duration::new(0, 10 ^ 8))
SleepNanos == BitXor(10, 8)

\* rand::thread_rng().gen_range(0..5): the exclusive upper end.
GenRangeEnd == 5

\* Variant: the message is numbered before the counter is incremented.
RECURSIVE SendLoopNumberFirst(_, _, _)
SendLoopNumberFirst(n, num, evs) ==
    IF n = 0 THEN [message_number |-> num, events |-> evs]
    ELSE SendLoopNumberFirst(n - 1, num + 1,
                             Append(evs, [message_number |-> num]))

\* for _ in 0..n { *message_number += 1; events.send(ImportantMessage {..}) }
\* The time stamp of a message is not modelled: nothing reads it but println.
RECURSIVE SendLoop(_, _, _)
SendLoop(n, num, evs) ==
    IF n = 0 THEN [message_number |-> num, events |-> evs]
    ELSE SendLoop(n - 1, num + 1, Append(evs, [message_number |-> num + 1]))

\* Events::event_count. main registers Events with init_resource, not with
\* add_event, so Events::update never runs and no buffer is ever cleared:
\* every message sent is still in the buffer, at the index of its count.
EventCount(evs) == Len(evs)

\* Variant: the reader ignores its cursor and starts at the first event.
IterStartFromZero(last) == 1

\* Variant: the reader starts one event too far.
IterStartSkipsOne(last) == last + 2

\* EventReader::iter: the index (from 1) of the first event the iterator
\* yields, the one after the last the reader has counted.
IterStart(last) == last + 1

\* Variant: the cursor is set to the index after the last item taken.
CursorPastNext(next, count) == next

\* EventReader::iter sets the reader's last_event_count to the queue's
\* event_count when the iterator is made, not as its items are taken:
\* `next` is the index after the last item taken.
CursorAfterIter(next, count) == count

\* Variant: the budget counts as spent only once exceeded.
BudgetSpentGt(elapsed, budget) == elapsed > budget

\* if system_start.elapsed() >= time_budget.duration { break; }
BudgetSpent(elapsed, budget) == elapsed >= budget

\* do_work's for loop over the events at first..last: each iteration takes
\* c, then the budget is checked. The result is the index after the last
\* message processed and the time the loop took.
RECURSIVE DrainLoop(_, _, _, _, _)
DrainLoop(i, last, elapsed, budget, c) ==
    IF i > last THEN [next |-> i, elapsed |-> elapsed]
    ELSE IF BudgetSpent(elapsed + c, budget)
         THEN [next |-> i + 1, elapsed |-> elapsed + c]
         ELSE DrainLoop(i + 1, last, elapsed + c, budget, c)

MessageNumbers(evs, from, to) ==
    [k \in 1..(to - from + 1) |-> evs[from + k - 1].message_number]

SendEvents ==
    /\ pc = "send_events"
    /\ Len(passes) < MaxTicks
    /\ \E n \in 0..(GenRangeEnd - 1) :
          LET r == SendLoop(n, message_number, events)
          IN  /\ message_number' = r.message_number
              /\ events' = r.events
    /\ pc' = "do_work"
    /\ UNCHANGED <<time_budget, cost, last_event_count, processed, passes>>
    /\ UNCHANGED <<scoreVars, resVars>>

DoWork ==
    /\ pc = "do_work"
    /\ LET first == IterStart(last_event_count)
           r == DrainLoop(first, EventCount(events), 0, time_budget, cost)
           msgs == MessageNumbers(events, first, r.next - 1)
       IN  /\ processed' = processed \o msgs
           /\ last_event_count' = CursorAfterIter(r.next, EventCount(events))
           /\ passes' = Append(passes,
                  [first |-> last_event_count + 1,
                   unread |-> EventCount(events) - last_event_count,
                   msgs |-> msgs,
                   elapsed |-> r.elapsed])
    /\ pc' = "send_events"
    /\ UNCHANGED <<time_budget, cost, events, message_number>>
    /\ UNCHANGED <<scoreVars, resVars>>

-----------------------------------------------------------------------------
(* resource_smart_pointers.rs *)

Player1 == "Player 1"

Player2 == "Player 2"

\* rng.gen_range(0..10): the exclusive upper end.
ScoreRangeEnd == 10

\* HashMap::default(): no entries.
EmptyMap == [k \in {} |-> 0]

\* HashMap::insert: the key's value is set, whether or not it had one.
Insert(m, key, value) ==
    [k \in (DOMAIN m) \cup {key} |-> IF k = key THEN value ELSE m[k]]

\* Variant: Player 2 wins ties.
WinnerGt(p1, p2) == IF p1 > p2 THEN Player1 ELSE Player2

\* if player_1_score.0 >= player_2_score.0 { Player1 } else { Player2 }
WinnerOf(p1, p2) == IF p1 >= p2 THEN Player1 ELSE Player2

\* The startup system: it runs once, before the first tick.
InitializeScores ==
    /\ spc = "initialize_scores"
    /\ score_map' = Insert(Insert(score_map, Player1, 0), Player2, 0)
    /\ spc' = "update_score"
    /\ UNCHANGED <<winner, shown>>
    /\ UNCHANGED <<concVars, resVars>>

\* Every entry's score grows by its own random amount. Scores above MaxScore
\* are not explored.
UpdateScore ==
    /\ spc = "update_score"
    /\ \E d1, d2 \in 0..(ScoreRangeEnd - 1) :
          /\ score_map[Player1] + d1 <= MaxScore
          /\ score_map[Player2] + d2 <= MaxScore
          /\ score_map' = [score_map EXCEPT ![Player1] = @ + d1,
                                            ![Player2] = @ + d2]
    /\ spc' = "determine_winner"
    /\ UNCHANGED <<winner, shown>>
    /\ UNCHANGED <<concVars, resVars>>

DetermineWinner ==
    /\ spc = "determine_winner"
    /\ winner' = WinnerOf(score_map[Player1], score_map[Player2])
    /\ spc' = "show_winner"
    /\ UNCHANGED <<score_map, shown>>
    /\ UNCHANGED <<concVars, resVars>>

ShowWinner ==
    /\ spc = "show_winner"
    /\ shown' = <<[player_1_score |-> score_map[Player1],
                   player_2_score |-> score_map[Player2],
                   winner |-> winner]>>
    /\ spc' = "update_score"
    /\ UNCHANGED <<score_map, winner>>
    /\ UNCHANGED <<concVars, resVars>>

-----------------------------------------------------------------------------
(* unique_resource_types.rs (the u32 and the f32 one), adding_resources.rs *)

UniqueU32 == "ecs/resources_code/examples/unique_resource_types.rs"

UniqueF32 == "ecs/communication/resources_code/examples/unique_resource_types.rs"

Adding == "ecs/communication/resources_code/examples/adding_resources.rs"

Examples == {UniqueU32, UniqueF32, Adding}

\* The type a name stands for: `type Score = u32` (`= f32`) is an alias, not
\* a type of its own; every other name of the examples is its own type.
TypeOf(ex, ty) ==
    IF ty = "Score" THEN (IF ex = UniqueU32 THEN "u32" ELSE "f32") ELSE ty

\* impl Default for InfantryStats
InfantryStatsDefault == [hp |-> 10, damage |-> 2, speed |-> 1]

\* The add_resource and init_resource calls of each main, in order, each with
\* the type as written and the value. A marker or phantom type is part of the
\* type; a float literal n.0 is written n.
BuilderCalls(ex) ==
    IF ex = UniqueU32 THEN
        << [ty |-> "u32", value |-> 1],
           [ty |-> "Score", value |-> 2],
           [ty |-> "FallingThreshold", value |-> 3],
           [ty |-> "(Friendly, i32)", value |-> 4],
           [ty |-> "(Hostile, i32)", value |-> 5],
           [ty |-> "MaxUnits<Friendly>", value |-> 4],
           [ty |-> "MaxUnits<Hostile>", value |-> 5] >>
    ELSE IF ex = UniqueF32 THEN
        << [ty |-> "f32", value |-> 1],
           [ty |-> "Score", value |-> 2],
           [ty |-> "FallingThreshold", value |-> 3],
           [ty |-> "(Friendly, f64)", value |-> 4],
           [ty |-> "(Hostile, f64)", value |-> 5] >>
    ELSE
        << [ty |-> "InfantryStats", value |-> InfantryStatsDefault],
           [ty |-> "PlayerResources", value |-> [gold |-> 1000, wood |-> 500]],
           [ty |-> "InitialPosition", value |-> <<0, 0>>],
           [ty |-> "PlayerColor", value |-> "Pink"] >>

\* Variant: a type's first resource is kept.
AddResourceKeepFirst(res, ty, value) ==
    IF ty \in DOMAIN res THEN res ELSE Insert(res, ty, value)

\* AppBuilder::add_resource (init_resource adds the Default value): the
\* resources are a map keyed by the value's type.
AddResource(res, ty, value) == Insert(res, ty, value)

\* One call of a main's builder chain.
AddResourceCall ==
    /\ \E ex \in Examples :
          /\ rpc[ex] < Len(BuilderCalls(ex))
          /\ LET call == BuilderCalls(ex)[rpc[ex] + 1]
             IN  resources' = [resources EXCEPT
                     ![ex] = AddResource(@, TypeOf(ex, call.ty), call.value)]
          /\ rpc' = [rpc EXCEPT ![ex] = @ + 1]
    /\ UNCHANGED <<concVars, scoreVars>>

-----------------------------------------------------------------------------
(* The specifications *)

\* concurrency.rs after App::build(): the given budget and iteration cost,
\* `backlog` unread messages queued, nothing read.
ConcInit(budgets, costs, backlogs) ==
    /\ time_budget \in budgets
    /\ cost \in costs
    /\ \E b \in backlogs :
          /\ events = SendLoop(b, 0, <<>>).events
          /\ message_number = b
    /\ last_event_count = 0
    /\ processed = <<>>
    /\ passes = <<>>
    /\ pc = "send_events"

\* resource_smart_pointers.rs after App::build(): the map is Default, the
\* winner is Winner(Player::Player1), nothing is printed.
ScoreInit ==
    /\ score_map = EmptyMap
    /\ winner = Player1
    /\ shown = <<>>
    /\ spc = "initialize_scores"

\* App::build(): no resources yet.
ResInit ==
    /\ resources = [ex \in Examples |-> EmptyMap]
    /\ rpc = [ex \in Examples |-> 0]

\* concurrency.rs as main configures it.
Init ==
    /\ ConcInit({TimeBudgetNanos}, SleepNanos..(SleepNanos + MaxOversleep), {0})
    /\ ScoreInit
    /\ ResInit

\* do_work as a function of its parameters: the TimeBudget resource holds any
\* of a range of budgets (the configured one and 0.3 s among them), an
\* iteration costs any of a range of times (0.1 s among them), and the queue
\* may hold unread messages before the first tick.
InitDoWork ==
    /\ ConcInit((0..MaxBudget) \cup {TimeBudgetNanos, 3 * 10^8},
                (1..MaxCost) \cup {SleepNanos, 10^8},
                0..MaxBacklog)
    /\ ScoreInit
    /\ ResInit

InitScore ==
    /\ ConcInit({TimeBudgetNanos}, {SleepNanos}, {0})
    /\ ScoreInit
    /\ ResInit

InitResources ==
    /\ ConcInit({TimeBudgetNanos}, {SleepNanos}, {0})
    /\ ScoreInit
    /\ ResInit

\* A tick runs send_events, then do_work.
Next == SendEvents \/ DoWork

NextScore == InitializeScores \/ UpdateScore \/ DetermineWinner \/ ShowWinner

NextResources == AddResourceCall

Spec == Init /\ [][Next]_vars

SpecDoWork == InitDoWork /\ [][Next]_vars

SpecScore == InitScore /\ [][NextScore]_vars

SpecResources == InitResources /\ [][NextResources]_vars

-----------------------------------------------------------------------------
(* The claims *)

\* The index in the queue of the message numbered num.
PositionOf(num) ==
    CHOOSE k \in 1..Len(events) : events[k].message_number = num

\* The message numbers in a sequence.
Range(seq) == {seq[i] : i \in 1..Len(seq)}

\* C1: the messages do_work processes, over any number of ticks, are
\* processed in strict enqueue order: each was enqueued later than every
\* message processed before it, so none is processed twice or out of order.
C1_ProcessedInEnqueueOrder ==
    \A i, j \in 1..Len(processed) :
        i < j => PositionOf(processed[i]) < PositionOf(processed[j])

\* Two passes have each processed messages.
C1_Witness ==
    /\ Len(passes) >= 2
    /\ Len(passes[1].msgs) >= 2
    /\ Len(passes[2].msgs) >= 2

\* C2: at every tick boundary no message before the drainer's cursor is
\* unprocessed: a pass that stops early leaves the rest unread for a later
\* pass.
C2_NoMessageSkipped ==
    pc = "send_events" =>
        \A k \in 1..last_event_count :
            events[k].message_number \in Range(processed)

\* C3: a pass takes at most the budget plus one message's cost, and starts no
\* further message once the budget has elapsed.
C3_OvershootAtMostOneMessage ==
    \A i \in 1..Len(passes) :
        /\ passes[i].elapsed <= time_budget + cost
        /\ Len(passes[i].msgs) >= 2 => passes[i].elapsed - cost < time_budget

\* A pass stopped early, over budget, after several messages.
C3_Witness ==
    \E i \in 1..Len(passes) :
        /\ Len(passes[i].msgs) >= 2
        /\ Len(passes[i].msgs) < passes[i].unread
        /\ passes[i].elapsed > time_budget

C5_ConfiguredDurations ==
    /\ time_budget = 3 * 10^8
    /\ SleepNanos = 10^8
    /\ time_budget = 3 * SleepNanos

\* C6: with a budget of at least one message's cost, a pass that starts with
\* an unread message processes at least one.
C6_ProgressPerPass ==
    \A i \in 1..Len(passes) :
        (time_budget >= cost /\ passes[i].unread >= 1) =>
            Len(passes[i].msgs) >= 1

\* A pass with the budget equal to the cost and a backlog processed a message.
C6_Witness ==
    \E i \in 1..Len(passes) :
        /\ time_budget = cost
        /\ passes[i].unread >= 2
        /\ Len(passes[i].msgs) = 1

\* C7: a pass that starts with nothing unread processes nothing and leaves
\* the queue, the cursor and the producer's counter as they were, each time
\* it is invoked in that state.
C7_EmptyPassChangesNothing ==
    [][(/\ pc = "do_work"
        /\ pc' = "send_events"
        /\ last_event_count = EventCount(events))
          => /\ processed' = processed
             /\ events' = events
             /\ last_event_count' = last_event_count
             /\ message_number' = message_number
             /\ passes'[Len(passes')].msgs = <<>>
             /\ passes'[Len(passes')].elapsed = 0]_vars

\* Two passes in a row started with every queued message already read.
C7_Witness ==
    /\ Len(passes) >= 3
    /\ Len(events) >= 1
    /\ passes[Len(passes)].unread = 0
    /\ passes[Len(passes) - 1].unread = 0

\* C8: each send_events appends 0 to 4 messages at the end of the queue, and
\* the k-th message of the queue is numbered k, the producer's counter being
\* the queue's length.
C8_ConsecutiveNumbers ==
    /\ [](/\ message_number = Len(events)
          /\ \A k \in 1..Len(events) : events[k].message_number = k)
    /\ [][pc = "send_events" =>
            /\ Len(events') - Len(events) \in 0..4
            /\ SubSeq(events', 1, Len(events)) = events]_vars

\* Two ticks have each sent 4 messages.
C8_Witness ==
    /\ pc = "do_work"
    /\ Len(passes) = 1
    /\ passes[1].unread = 4
    /\ Len(events) = 8

\* C9: once determine_winner has run in a tick, the winner is Player 1
\* exactly when Player 1's score is at least Player 2's, and so is the winner
\* show_winner prints beside the two scores.
C9_WinnerAgreesWithScores ==
    /\ spc = "show_winner" =>
          (winner = Player1 <=> score_map[Player1] >= score_map[Player2])
    /\ spc = "show_winner" => winner \in {Player1, Player2}
    /\ \A i \in 1..Len(shown) :
          /\ shown[i].winner \in {Player1, Player2}
          /\ shown[i].winner = Player1
                <=> shown[i].player_1_score >= shown[i].player_2_score

\* show_winner has printed a tie above 0, won by Player 1.
C9_Witness ==
    /\ shown # <<>>
    /\ shown[1].player_1_score = shown[1].player_2_score
    /\ shown[1].player_1_score > 0
    /\ shown[1].winner = Player1

\* The value of the last of the first n calls of ex that adds type ty.
LastAdded(ex, n, ty) ==
    LET at == {k \in 1..n : TypeOf(ex, BuilderCalls(ex)[k].ty) = ty}
    IN  BuilderCalls(ex)[CHOOSE k \in at : \A m \in at : m <= k].value

\* C10: resources are keyed by type and a later resource of a type replaces
\* the earlier one: after main's calls the resource added as Score has
\* replaced the plain number (one resource of that type, holding 2), and the
\* other resources each hold the value they were added with.
C10_LaterResourceReplaces ==
    /\ \A ex \in Examples :
          /\ DOMAIN resources[ex] =
                {TypeOf(ex, BuilderCalls(ex)[k].ty) : k \in 1..rpc[ex]}
          /\ \A ty \in DOMAIN resources[ex] :
                resources[ex][ty] = LastAdded(ex, rpc[ex], ty)
    /\ rpc[UniqueU32] = 7 =>
          /\ DOMAIN resources[UniqueU32] =
                {"u32", "FallingThreshold", "(Friendly, i32)",
                 "(Hostile, i32)", "MaxUnits<Friendly>", "MaxUnits<Hostile>"}
          /\ resources[UniqueU32]["u32"] = 2
          /\ resources[UniqueU32]["FallingThreshold"] = 3
          /\ resources[UniqueU32]["(Friendly, i32)"] = 4
          /\ resources[UniqueU32]["(Hostile, i32)"] = 5
          /\ resources[UniqueU32]["MaxUnits<Friendly>"] = 4
          /\ resources[UniqueU32]["MaxUnits<Hostile>"] = 5
    /\ rpc[UniqueF32] = 5 =>
          /\ DOMAIN resources[UniqueF32] =
                {"f32", "FallingThreshold", "(Friendly, f64)", "(Hostile, f64)"}
          /\ resources[UniqueF32]["f32"] = 2

\* Both unique_resource_types mains have made all their calls.
C10_Witness ==
    /\ rpc[UniqueU32] = 7
    /\ rpc[UniqueF32] = 5

=============================================================================
